---- MODULE Spec2Model ----
(***************************************************************************)
(* Model of rusty-strings-control (src/src/main.rs): the audio callback    *)
(* that feeds a bounded channel, the consumer loop of main() that slides a *)
(* window over the received samples, and the hold/cooldown trigger machine *)
(* that main() runs once per analysed window.                              *)
(*                                                                         *)
(* Samples are identified by their serial number of production; time is in *)
(* milliseconds on the monotonic clock, 0 being the instant main() sets up *)
(* its trigger state.  The pitch estimator and the note quantizer are seen *)
(* here only through the judgment they produce for a window.               *)
(***************************************************************************)
EXTENDS Integers, Sequences, FiniteSets, TLC

\* ------------------------------------------------------------ bounds
MaxSamples == 6
MaxCap == 2
MaxWindow == 3
MaxHop == 3
MaxFrames == 4
MaxDt == 1
MaxHold == 2
MaxRetrigger == 2
MaxSteadyFrames == 14
MaxMidi == 140
MaxTokens == 3

\* ------------------------------------------------------------ values
Notes == {"A4", "E4"}

\* Option<String>::None of last_note
NoNote == "none"

\* What the configuration binds a note to: nothing, a key sequence that
\* send_keys parses, or one it rejects.
ActionKinds == {"unmapped", "valid", "invalid"}

\* detect_pitch_autocorr returned None
NoPitch == [pitch |-> FALSE, note |-> NoNote, in_tune |-> FALSE]

\* The per-frame judgment: no pitch, or a note name with |cents| <= tolerance or not
Judgments ==
    {NoPitch} \cup {[pitch |-> TRUE, note |-> n, in_tune |-> b] : n \in Notes, b \in BOOLEAN}

InTune(n) == [pitch |-> TRUE, note |-> n, in_tune |-> TRUE]

VARIABLES
    \* configuration and session constants
    capacity, window_size, hop_size, note_hold_frames, retrigger_ms, note_map,
    \* the sample channel and its producer
    chan, connected, produced, sendLen,
    \* the consumer loop
    pc, buffer, hop_accum, received, windows,
    \* the trigger state
    last_note, stable_count, last_trigger_time, now,
    \* observation of the trigger machine
    nframes, judgment, outcome, prev, emit_count, emits, recent, onScript,
    \* the frame period of a steady stream
    period,
    \* the trigger machine as specified, run beside the implemented one
    ref,
    \* the latest application of one of the program's functions: its
    \* arguments and what it gave
    call

cfgvars == <<capacity, window_size, hop_size, note_hold_frames, retrigger_ms, note_map>>
chanvars == <<chan, connected, produced, sendLen>>
loopvars == <<pc, buffer, hop_accum, received, windows>>
trigvars == <<last_note, stable_count, last_trigger_time, now>>
obsvars == <<nframes, judgment, outcome, prev, emit_count, emits, recent, onScript, period,
             ref, call>>
vars == <<cfgvars, chanvars, loopvars, trigvars, obsvars>>

\* ------------------------------------------------------------ helpers
\* No function applied yet
NoCall == [kind |-> "none"]

Max(a, b) == IF a >= b THEN a ELSE b

\* The last k elements of s (all of s when it has fewer)
LastK(s, k) == SubSeq(s, Max(1, Len(s) - k + 1), Len(s))

\* ------------------------------------------------------------ trigger machine
\* Instant::now() at the set-up of the trigger state
StartInstant == 0

\* InitialTriggerTime without the head start of one cooldown
InitialTriggerTime_Now == StartInstant

\* last_trigger_time = Instant::now() - Duration::from_millis(cfg.retrigger_ms)
InitialTriggerTime == StartInstant - retrigger_ms

\* Instant::duration_since: the elapsed time, zero when `earlier` is later
DurationSince(t, earlier) == IF t >= earlier THEN t - earlier ELSE 0

\* CountAfter with the counter kept across a change of note
CountAfter_KeepsOnNewNote(j) ==
    IF j.pitch /\ j.in_tune THEN stable_count + 1 ELSE 0

\* CountAfter with the counter left alone by an out-of-tune frame
CountAfter_KeepsOnOutOfTune(j) ==
    IF j.pitch
    THEN IF j.in_tune
         THEN IF j.note = last_note THEN stable_count + 1 ELSE 1
         ELSE stable_count
    ELSE 0

\* stable_count after the frame's update of the counters
CountAfter(j) ==
    IF j.pitch
    THEN IF j.in_tune
         THEN IF j.note = last_note THEN stable_count + 1 ELSE 1
         ELSE 0
    ELSE 0

\* NoteAfter with last_note left alone by a no-pitch frame
NoteAfter_KeepsOnNoPitch(j) ==
    IF j.pitch /\ j.in_tune THEN j.note ELSE last_note

\* last_note after the frame's update of the counters
NoteAfter(j) ==
    IF j.pitch
    THEN IF j.in_tune THEN j.note ELSE last_note
    ELSE NoNote

\* TriggerCondition with the cooldown kept per note: only a repeat of the
\* note that triggered last is held back
TriggerCondition_PerNote(j, t) ==
    /\ CountAfter(j) >= note_hold_frames
    /\ \/ DurationSince(t, last_trigger_time) >= retrigger_ms
       \/ j.note # last_note

\* TriggerCondition with the cooldown compared strictly
TriggerCondition_Strict(j, t) ==
    /\ CountAfter(j) >= note_hold_frames
    /\ DurationSince(t, last_trigger_time) > retrigger_ms

\* stable_count >= note_hold_frames && now.duration_since(last_trigger_time) >= retrigger_ms
TriggerCondition(j, t) ==
    /\ CountAfter(j) >= note_hold_frames
    /\ DurationSince(t, last_trigger_time) >= retrigger_ms

\* execute_action on what the note is bound to: Ok(()) or Err.  send_keys
\* fails only when the key sequence does not parse, so the result is the same
\* every time the action is executed.
ExecuteAction(kind) == kind = "valid"

\* What the frame does about its action: "idle" (trigger condition not met),
\* "unmapped" (condition met, note_map has no entry), "fired" (action executed)
\* or "failed" (action attempted, execute_action returned Err)
Outcome(j, t) ==
    IF j.pitch /\ j.in_tune /\ TriggerCondition(j, t)
    THEN IF note_map[j.note] = "unmapped" THEN "unmapped"
         ELSE IF ExecuteAction(note_map[j.note]) THEN "fired" ELSE "failed"
    ELSE "idle"

\* TimeAfter with the timestamp taken on every attempt, failed ones included
TimeAfter_OnAttempt(j, t) ==
    IF Outcome(j, t) \in {"fired", "failed"} THEN t ELSE last_trigger_time

\* TimeAfter with the timestamp taken whenever the trigger condition holds,
\* whether or not the note has an action
TimeAfter_OnCondition(j, t) ==
    IF Outcome(j, t) \in {"fired", "unmapped"} THEN t ELSE last_trigger_time

\* last_trigger_time after the frame
TimeAfter(j, t) == IF Outcome(j, t) = "fired" THEN t ELSE last_trigger_time

\* The trigger machine of the specification (section 4.4), which differs from
\* the implemented one in clearing last_note on an out-of-tune frame as well
RefCountAfter(j) ==
    IF j.pitch /\ j.in_tune
    THEN IF j.note = ref.last_note THEN ref.stable_count + 1 ELSE 1
    ELSE 0

RefNoteAfter(j) == IF j.pitch /\ j.in_tune THEN j.note ELSE NoNote

RefOutcome(j, t) ==
    IF /\ j.pitch /\ j.in_tune
       /\ RefCountAfter(j) >= note_hold_frames
       /\ t - ref.last_trigger_time >= retrigger_ms
    THEN IF note_map[j.note] = "unmapped" THEN "unmapped"
         ELSE IF ExecuteAction(note_map[j.note]) THEN "fired" ELSE "failed"
    ELSE "idle"

RefStep(j, t) ==
    [last_note |-> RefNoteAfter(j),
     stable_count |-> RefCountAfter(j),
     last_trigger_time |-> IF RefOutcome(j, t) = "fired" THEN t ELSE ref.last_trigger_time,
     outcome |-> RefOutcome(j, t)]

\* The judgment sequence of the interrupted-hold scenario: note_hold_frames - 1
\* in-tune A4, one no-pitch frame, note_hold_frames in-tune A4
Script(k) ==
    IF k = note_hold_frames THEN NoPitch
    ELSE IF k >= 1 /\ k <= 2 * note_hold_frames THEN InTune("A4")
    ELSE [pitch |-> FALSE, note |-> "off-script", in_tune |-> FALSE]

\* One analysed frame (main.rs 154-196): the clock is read (dt after the
\* previous reading), the judgment j updates the trigger state; the
\* observation variables record the frame.
ProcessFrame(j, dt) ==
    LET t == now + dt
        o == Outcome(j, t)
    IN  /\ now' = t
        /\ last_note' = NoteAfter(j)
        /\ stable_count' = CountAfter(j)
        /\ last_trigger_time' = TimeAfter(j, t)
        /\ nframes' = nframes + 1
        /\ judgment' = j
        /\ outcome' = o
        /\ prev' = [last_note |-> last_note, stable_count |-> stable_count,
                    last_trigger_time |-> last_trigger_time, outcome |-> outcome,
                    now |-> now, emit_count |-> emit_count]
        /\ emit_count' = IF o = "fired" THEN emit_count + 1 ELSE emit_count
        /\ emits' = IF o = "fired"
                    THEN LastK(Append(emits, [note |-> j.note, at |-> t]), 2)
                    ELSE emits
        /\ recent' = LastK(Append(recent, j), MaxHold)
        /\ onScript' = (onScript /\ j = Script(nframes + 1))
        /\ period' = period
        /\ ref' = RefStep(j, t)
        /\ call' = call

\* ------------------------------------------------------------ channel and sliding buffer
\* TrySend as a ring that makes room by dropping the oldest queued sample
TrySend_DropOldest(ch, s) ==
    IF Len(ch) < capacity THEN Append(ch, s) ELSE Append(Tail(ch), s)

\* tx.try_send(mono) on the bounded channel: the sample is queued unless the
\* channel already holds `capacity` samples, and is dropped then
TrySend(ch, s) == IF Len(ch) < capacity THEN Append(ch, s) ELSE ch

\* PushTrim with the overflow cut from the back
PushTrim_KeepsOldest(buf, s) ==
    LET b == Append(buf, s)
    IN  IF Len(b) > window_size THEN SubSeq(b, 1, window_size) ELSE b

\* buffer.push(s), then the drain of the overflow from the front
PushTrim(buf, s) ==
    LET b == Append(buf, s)
    IN  IF Len(b) > window_size
        THEN SubSeq(b, (Len(b) - window_size) + 1, Len(b))
        ELSE b

\* The exit of `while hop_accum < hop_size`
HopFilled(h) == ~(h < hop_size)

\* WindowReady without the check of the buffer's length
WindowReady_Always(b) == TRUE

\* The negation of `if buffer.len() < window_size { continue; }`
WindowReady(b) == ~(Len(b) < window_size)

\* ------------------------------------------------------------ initial states
\* hop_size = if cfg.hop_size > 0 { cfg.hop_size } else { window_size / 4 }
ResolveHop(cfg_hop, w) == IF cfg_hop > 0 THEN cfg_hop ELSE w \div 4

\* The state main() builds before its loop, the channel still empty
InitState ==
    /\ chan = <<>> /\ connected = TRUE /\ produced = 0 /\ sendLen = <<>>
    /\ pc = "run" /\ buffer = <<>> /\ hop_accum = 0 /\ received = <<>> /\ windows = <<>>
    /\ last_note = NoNote /\ stable_count = 0
    /\ last_trigger_time = InitialTriggerTime /\ now = StartInstant
    /\ nframes = 0 /\ judgment = NoPitch /\ outcome = "idle"
    /\ prev = [last_note |-> NoNote, stable_count |-> 0,
               last_trigger_time |-> InitialTriggerTime, outcome |-> "idle",
               now |-> StartInstant, emit_count |-> 0]
    /\ emit_count = 0 /\ emits = <<>> /\ recent = <<>> /\ onScript = TRUE
    /\ ref = [last_note |-> NoNote, stable_count |-> 0,
              last_trigger_time |-> InitialTriggerTime, outcome |-> "idle"]
    /\ call = NoCall

\* Configurations of the trigger machine
TriggerMaps ==
    { [A4 |-> "valid", E4 |-> "unmapped"],
      [A4 |-> "valid", E4 |-> "valid"],
      [A4 |-> "invalid", E4 |-> "valid"] }

InitTrig ==
    /\ capacity = 1 /\ window_size = 1 /\ hop_size = 1 /\ period = 0
    /\ note_hold_frames \in 0..MaxHold
    /\ retrigger_ms \in 0..MaxRetrigger
    /\ note_map \in TriggerMaps
    /\ InitState

\* ------------------------------------------------------------ frame-level actions
\* The loop body from the estimator's result on, for any judgment and any
\* time since the previous frame
Frame ==
    /\ pc = "run"
    /\ nframes < MaxFrames
    /\ \E j \in Judgments, dt \in 0..MaxDt : ProcessFrame(j, dt)
    /\ UNCHANGED <<cfgvars, chanvars, loopvars>>

NextTrig == Frame

\* A continuous stream of in-tune A4 judgments at a fixed frame period, A4
\* bound to an action that succeeds
SteadyHolds == {0, 1, 2, 3}
SteadyRetriggers == {0, 250, 500, 600}
SteadyPeriods == {100, 200}

InitSteady ==
    /\ capacity = 1 /\ window_size = 1 /\ hop_size = 1
    /\ period \in SteadyPeriods
    /\ note_hold_frames \in SteadyHolds
    /\ retrigger_ms \in SteadyRetriggers
    /\ note_map = [A4 |-> "valid", E4 |-> "unmapped"]
    /\ InitState

\* The first frame comes any time after the set-up, each later one a period
\* after the one before
SteadyFrame ==
    /\ pc = "run"
    /\ nframes < MaxSteadyFrames
    /\ \E dt \in (IF nframes = 0 THEN {0, period, 10 * period} ELSE {period}) :
          ProcessFrame(InTune("A4"), dt)
    /\ UNCHANGED <<cfgvars, chanvars, loopvars>>

NextSteady == SteadyFrame

SpecSteady == InitSteady /\ [][NextSteady]_vars

SpecTrig == InitTrig /\ [][NextTrig]_vars

\* ------------------------------------------------------------ the pipeline
\* A session: any small channel capacity and window, any configured hop
\* (0: a quarter of the window), one trigger configuration
Init ==
    /\ capacity \in 1..MaxCap
    /\ window_size \in 1..MaxWindow
    /\ \E cfg_hop \in 0..MaxHop : hop_size = ResolveHop(cfg_hop, window_size)
    /\ period = 0
    /\ note_hold_frames = 1
    /\ retrigger_ms = 1
    /\ note_map = [A4 |-> "valid", E4 |-> "unmapped"]
    /\ InitState

\* The audio callback sends one mixed-down sample; it never waits
Produce ==
    /\ connected /\ pc = "run"
    /\ produced < MaxSamples
    /\ produced' = produced + 1
    /\ chan' = TrySend(chan, produced + 1)
    /\ sendLen' = Append(sendLen, Len(chan))
    /\ UNCHANGED <<connected, cfgvars, loopvars, trigvars, obsvars>>

\* The stream and with it the only Sender is dropped
Close ==
    /\ connected /\ pc = "run"
    /\ connected' = FALSE
    /\ UNCHANGED <<chan, produced, sendLen, cfgvars, loopvars, trigvars, obsvars>>

\* The judgments the pipeline's windows are given: silence, or an in-tune A4
PipelineJudgments == {NoPitch, InTune("A4")}

\* The analysis of the window now in the buffer, some time after the previous
\* frame
Analyse(b, total) ==
    /\ windows' = Append(windows, [samples |-> b, total |-> total])
    /\ \E j \in PipelineJudgments : ProcessFrame(j, MaxDt)

\* One pass of the inner loop: rx.recv() returns a sample, it is pushed and the
\* buffer trimmed; when that fills the hop, the rest of the outer loop's body
\* runs (the frame is analysed if the buffer is full)
Recv ==
    /\ pc = "run"
    /\ hop_accum < hop_size
    /\ chan # <<>>
    /\ LET s == Head(chan)
           b == PushTrim(buffer, s)
           h == hop_accum + 1
       IN  /\ chan' = Tail(chan)
           /\ received' = Append(received, s)
           /\ buffer' = b
           /\ hop_accum' = IF HopFilled(h) THEN 0 ELSE h
           /\ IF HopFilled(h) /\ WindowReady(b)
              THEN Analyse(b, Len(received) + 1)
              ELSE UNCHANGED <<windows, trigvars, obsvars>>
    /\ UNCHANGED <<connected, produced, sendLen, cfgvars, pc>>

\* rx.recv() fails: the channel is empty and disconnected; main returns the
\* error "audio stream ended"
RecvEnd ==
    /\ pc = "run"
    /\ hop_accum < hop_size
    /\ chan = <<>> /\ ~connected
    /\ pc' = "done"
    /\ UNCHANGED <<cfgvars, chanvars, buffer, hop_accum, received, windows, trigvars, obsvars>>

\* A pass of the outer loop whose inner loop has nothing to do (hop_size = 0):
\* no sample is received
Spin ==
    /\ pc = "run"
    /\ HopFilled(hop_accum)
    /\ hop_accum' = 0
    /\ IF WindowReady(buffer)
       THEN Analyse(buffer, Len(received))
       ELSE UNCHANGED <<windows, trigvars, obsvars>>
    /\ UNCHANGED <<cfgvars, chanvars, pc, buffer, received>>

Next == Produce \/ Close \/ Recv \/ RecvEnd \/ Spin

Spec == Init /\ [][Next]_vars

\* ------------------------------------------------------------ claims on the trigger machine
\* The judgments of the last k frames
LastJudgments(k) == LastK(recent, k)

\* A dispatch was attempted on the latest frame (the "Trigger:" line was printed)
Attempted == outcome \in {"fired", "failed"}

\* stable_count as the counters' update gives it from the state before the frame
ExpectedCount == IF prev.last_note = judgment.note THEN prev.stable_count + 1 ELSE 1

\* C1: a trigger is emitted on a frame only if that frame ends a run of at
\* least note_hold_frames consecutive in-tune judgments of the frame's note:
\* the last note_hold_frames judgments exist and are all in-tune judgments of
\* that note (no no-pitch, out-of-tune or other-note frame among them).
C1_TriggerNeedsRun ==
    (nframes > 0 /\ Attempted) =>
        /\ judgment.pitch /\ judgment.in_tune
        /\ nframes >= note_hold_frames
        /\ Len(LastJudgments(note_hold_frames)) = note_hold_frames
        /\ \A i \in 1..note_hold_frames :
              LastJudgments(note_hold_frames)[i] = InTune(judgment.note)

\* A trigger at the end of a run of exactly note_hold_frames frames that follows
\* a frame of another kind
C1_Witness ==
    /\ outcome = "fired" /\ note_hold_frames = 2 /\ nframes = 4
    /\ stable_count = 2 /\ prev.stable_count = 1

\* C2: two successive emitted triggers are at least retrigger_ms apart,
\* whatever their notes.
C2_GlobalCooldown ==
    Len(emits) = 2 => emits[2].at - emits[1].at >= retrigger_ms

\* Two successive triggers, of different notes, under a positive cooldown
C2_Witness ==
    /\ Len(emits) = 2 /\ emits[1].note # emits[2].note /\ retrigger_ms > 0

\* C3: (a) an in-tune frame of a note whose action succeeds, with the counter
\* at or above note_hold_frames after the update and the cooldown elapsed,
\* emits a trigger on that frame and takes the timestamp; (b) as long as nothing
\* has been emitted the cooldown does not block; (c) note_hold_frames - 1 in-tune
\* A4 frames, a no-pitch frame, then note_hold_frames in-tune A4 frames give no
\* trigger before the last frame and exactly one on it.
C3_FiresWhenDue ==
    /\ (nframes > 0 /\ judgment.pitch /\ judgment.in_tune
          /\ note_map[judgment.note] = "valid"
          /\ stable_count >= note_hold_frames
          /\ now - prev.last_trigger_time >= retrigger_ms)
        => (outcome = "fired" /\ last_trigger_time = now)
    /\ emit_count = 0 => now - last_trigger_time >= retrigger_ms
    /\ (onScript /\ note_hold_frames >= 1 /\ note_map["A4"] = "valid") =>
          /\ nframes < 2 * note_hold_frames => emit_count = 0
          /\ nframes = 2 * note_hold_frames => (emit_count = 1 /\ outcome = "fired")

\* The scenario run to its end with a hold of two frames and a positive cooldown
C3_Witness ==
    /\ onScript /\ note_hold_frames = 2 /\ nframes = 4 /\ note_map["A4"] = "valid"
    /\ retrigger_ms > 0 /\ outcome = "fired"

\* C5: a failed action leaves the timestamp as it was and the counters as the
\* frame's own update set them, the loop goes on, and every frame that meets
\* the trigger condition for a note whose action fails attempts it again.
C5_FailureKeepsCooldown ==
    /\ (nframes > 0 /\ outcome = "failed") =>
          /\ last_trigger_time = prev.last_trigger_time
          /\ last_note = judgment.note
          /\ stable_count = ExpectedCount
          /\ pc = "run"
    /\ (nframes > 0 /\ judgment.pitch /\ judgment.in_tune
          /\ note_map[judgment.note] = "invalid"
          /\ stable_count >= note_hold_frames
          /\ now - prev.last_trigger_time >= retrigger_ms)
        => outcome = "failed"

\* A failed attempt right after a failed attempt, under a positive cooldown
C5_Witness ==
    /\ outcome = "failed" /\ prev.outcome = "failed" /\ retrigger_ms > 0
    /\ now - prev.now < retrigger_ms

\* C6: an in-tune frame of a note without an action emits nothing and leaves
\* the timestamp alone, while last_note and the counter are updated as for any
\* note.
C6_UnmappedNote ==
    (nframes > 0 /\ judgment.pitch /\ judgment.in_tune
        /\ note_map[judgment.note] = "unmapped") =>
        /\ ~Attempted
        /\ emit_count = prev.emit_count
        /\ last_trigger_time = prev.last_trigger_time
        /\ last_note = judgment.note
        /\ stable_count = ExpectedCount

\* A mapped note triggers right after an unmapped note met the trigger
\* condition, less than one cooldown earlier
C6_Witness ==
    /\ outcome = "fired" /\ prev.outcome = "unmapped" /\ retrigger_ms > 0
    /\ now - prev.now < retrigger_ms

\* ------------------------------------------------------------ claims on the pipeline
\* The samples the channel has accepted, in the order the consumer gets them
Delivered == received \o chan

StrictlyIncreasing(s) == \A i \in 1..(Len(s) - 1) : s[i] < s[i + 1]

Range(s) == {s[i] : i \in 1..Len(s)}

\* The first n samples received
ReceivedUpTo(n) == SubSeq(received, 1, n)

\* The numbers of received samples at which a window is due: the hop
\* boundaries from window_size samples on
DueWindows(n) ==
    IF hop_size = 0 THEN {}
    ELSE {k \in 1..n : k % hop_size = 0 /\ k >= window_size}

\* C7: what the consumer receives (and what still waits in the channel) is the
\* produced sequence with some samples left out, in order and without repeats;
\* a sample is left out only if the channel held `capacity` samples when it was
\* produced; the channel never holds more than `capacity`; the producer's send
\* is always possible, whatever the channel holds.
C7_ChannelFifo ==
    /\ StrictlyIncreasing(Delivered)
    /\ Range(Delivered) \subseteq 1..produced
    /\ Len(sendLen) = produced
    /\ \A s \in 1..produced : s \notin Range(Delivered) => sendLen[s] >= capacity
    /\ Len(chan) <= capacity
    /\ (connected /\ pc = "run" /\ produced < MaxSamples) => ENABLED Produce

\* A sample was dropped between two samples that were received
C7_Witness ==
    \E s \in 1..produced :
        /\ s \notin Range(Delivered)
        /\ \E i, k \in 1..Len(received) : received[i] < s /\ s < received[k]

\* C8: the sliding buffer is the last window_size samples received (fewer
\* before that many have come), never longer than window_size, and every
\* window analysed is window_size samples long, the latest ones received by
\* then, in arrival order.
C8_WindowIsLatest ==
    /\ Len(buffer) <= window_size
    /\ buffer = LastK(received, window_size)
    /\ \A i \in 1..Len(windows) :
          /\ Len(windows[i].samples) = window_size
          /\ windows[i].total <= Len(received)
          /\ windows[i].samples = LastK(ReceivedUpTo(windows[i].total), window_size)

\* A window of two samples or more analysed after older samples were cut
C8_Witness ==
    /\ window_size >= 2 /\ Len(windows) >= 1
    /\ windows[Len(windows)].total > window_size
    /\ Len(received) > windows[Len(windows)].total

\* C9: a window is analysed only on a hop boundary with at least window_size
\* samples received; the first one on the first such boundary, each later one
\* exactly hop_size received samples after the one before, none left out; for
\* hop_size <= window_size two consecutive windows share exactly window_size -
\* hop_size samples, the tail of the one being the head of the other.
C9_HopCadence ==
    /\ Len(windows) = Cardinality(DueWindows(Len(received)))
    /\ \A i \in 1..Len(windows) :
          /\ windows[i].total \in DueWindows(Len(received))
          /\ i = 1 => windows[i].total - hop_size < window_size
          /\ i > 1 => windows[i].total = windows[i - 1].total + hop_size
          /\ (i > 1 /\ hop_size <= window_size) =>
                /\ SubSeq(windows[i - 1].samples, hop_size + 1, window_size)
                      = SubSeq(windows[i].samples, 1, window_size - hop_size)
                /\ Cardinality(Range(windows[i - 1].samples) \cap Range(windows[i].samples))
                      = window_size - hop_size

\* Two windows that overlap, the first analysed later than at window_size samples
C9_Witness ==
    /\ Len(windows) >= 2 /\ hop_size < window_size /\ hop_size > 1
    /\ windows[1].total > window_size

\* The windows analysed and the triggers emitted are those of the completed hops
NothingFromPartialHop ==
    /\ Len(windows) = nframes
    /\ Len(windows) = Cardinality(DueWindows(Len(received)))
    /\ emit_count <= nframes

\* C10: once the producer has closed the channel the consumer's receive either
\* takes a sample that is left or, the channel empty, ends the loop with the
\* error; at the end the channel is empty and the samples received since the
\* last completed hop have given no window and no trigger.
C10_ClosedThenEnds ==
    /\ (pc = "run" /\ ~connected /\ chan # <<>>) => ENABLED Recv
    /\ (pc = "run" /\ ~connected /\ chan = <<>>) => ENABLED RecvEnd
    /\ pc = "done" => (chan = <<>> /\ ~connected /\ NothingFromPartialHop)

\* The same with the sessions whose resolved hop_size is 0 left out
C10_EndsWhenHopPositive == hop_size > 0 => C10_ClosedThenEnds

\* The loop ended with part of a hop received and not analysed
C10_PartialHopDropped ==
    /\ pc = "done" /\ hop_accum > 0 /\ Len(windows) >= 1
    /\ Len(received) > windows[Len(windows)].total

\* ------------------------------------------------------------ claims on a steady stream
\* The least number of periods that cover the cooldown (at least one)
FramesPerCooldown == Max(1, (retrigger_ms + period - 1) \div period)

\* The frame of the first trigger
FirstTriggerFrame == Max(1, note_hold_frames)

\* C4: on a steady stream of in-tune frames of one mapped note the counter
\* counts every frame (a trigger does not reset it) and a trigger fires on frame
\* note_hold_frames and then on every frame that is a whole number of cooldown
\* periods later, on no other frame; with note_hold_frames = 3, retrigger_ms =
\* 500 and a frame every 100 ms these are the frames 3, 8, 13, ...
C4_SteadyRetrigger ==
    nframes > 0 =>
        /\ stable_count = nframes
        /\ (outcome = "fired") <=>
              /\ nframes >= FirstTriggerFrame
              /\ (nframes - FirstTriggerFrame) % FramesPerCooldown = 0
        /\ (note_hold_frames = 3 /\ retrigger_ms = 500 /\ period = 100) =>
              ((outcome = "fired") <=> (nframes >= 3 /\ (nframes - 3) % 5 = 0))

\* The third trigger of the 3 / 500 ms / 100 ms stream, on frame 13
C4_Witness ==
    /\ note_hold_frames = 3 /\ retrigger_ms = 500 /\ period = 100
    /\ nframes = 13 /\ outcome = "fired" /\ emit_count = 3 /\ stable_count = 13

\* ------------------------------------------------------------ the trigger state after a reset
\* The latest frame gave no pitch, or a pitch that is not in tune
ResetFrame == nframes > 0 /\ (~judgment.pitch \/ ~judgment.in_tune)

\* C17, as stated: after a frame that gave no pitch or an out-of-tune pitch,
\* stable_count is 0 and last_note is cleared.
C17_ResetClearsNote ==
    ResetFrame => (stable_count = 0 /\ last_note = NoNote)

\* C17, amended: after a no-pitch frame stable_count is 0 and last_note is
\* cleared; after an out-of-tune frame stable_count is 0 and last_note is what
\* it was before the frame.
C17_ResetKeepsNoteWhenOutOfTune ==
    /\ (nframes > 0 /\ ~judgment.pitch) => (stable_count = 0 /\ last_note = NoNote)
    /\ (nframes > 0 /\ judgment.pitch /\ ~judgment.in_tune) =>
          (stable_count = 0 /\ last_note = prev.last_note)

\* An out-of-tune frame after an in-tune one: last_note still names the note
C17_Witness ==
    /\ nframes > 0 /\ judgment.pitch /\ ~judgment.in_tune
    /\ last_note # NoNote /\ prev.stable_count > 0

\* C19: the implemented machine and the specified one, given the same
\* judgments at the same times, do the same about the action on every frame
\* (emit, fail, nothing) and hold the same counter and the same trigger
\* timestamp after it.
C19_SameAsSpecified ==
    /\ outcome = ref.outcome
    /\ stable_count = ref.stable_count
    /\ last_trigger_time = ref.last_trigger_time

\* A trigger on the frame after an out-of-tune frame of the same note, where the
\* two machines held different last_note
C19_Witness ==
    /\ outcome = "fired" /\ nframes >= 3
    /\ prev.stable_count = 0 /\ prev.last_note = judgment.note
    /\ retrigger_ms > 0

\* ------------------------------------------------------------ the consumer's only wait
\* C18: in every session the consumer's loop never makes a pass without
\* receiving a sample, and a sample that waits in the channel is received (so
\* that, samples arriving for ever, windows are analysed for ever).
C18_OnlyWaitIsReceive ==
    pc = "run" =>
        /\ ~ENABLED Spin
        /\ chan # <<>> => ENABLED Recv

\* ------------------------------------------------------------ window and hop resolution
\* The bounds of the auto-derived window and the divisors of main.rs 122-124
MinAutoWindow == 1024
MaxAutoWindow == 8192
RateDivisor == 20
HopDivisor == 4

\* Config::default(): window_size and hop_size
DefaultSize == 0

Min(a, b) == IF a <= b THEN a ELSE b

\* load_config: a size of 0 takes the default's
MergeDefault(size) == IF size = 0 THEN DefaultSize ELSE size

\* nearest_power_of_two: p = 1; while p < x { p <<= 1 }
RECURSIVE DoubleUntil(_, _)
DoubleUntil(p, x) == IF p < x THEN DoubleUntil(2 * p, x) ELSE p

NearestPowerOfTwo(x) == DoubleUntil(1, x)

\* AutoWindow without the lower clamp
AutoWindow_NoFloor(sample_rate) ==
    Min(NearestPowerOfTwo(sample_rate \div RateDivisor), MaxAutoWindow)

\* nearest_power_of_two((sample_rate as f32 / 20.0) as usize).max(1024).min(8192);
\* the cast truncates the quotient
AutoWindow(sample_rate) ==
    Min(Max(NearestPowerOfTwo(sample_rate \div RateDivisor), MinAutoWindow), MaxAutoWindow)

\* window_size = if cfg.window_size > 0 { cfg.window_size } else { auto }
ResolveWindow(cfg_window, sample_rate) ==
    IF cfg_window > 0 THEN cfg_window ELSE AutoWindow(sample_rate)

\* The sizes a config.toml may give and the rates a device may run at
ConfiguredSizes == {0, 1, 2, 3, 4, 5, 8, 512, 1024, 2048, 8192, 10000}
SampleRates ==
    {1, 8000, 11025, 16000, 20480, 20500, 22050, 30720, 32000, 40960, 40980, 44100,
     48000, 81920, 81940, 88200, 96000, 163840, 163860, 176400, 192000, 384000}

\* A session that only applies one of the program's functions
InitCall ==
    /\ capacity = 1 /\ window_size = 1 /\ hop_size = 1 /\ period = 0
    /\ note_hold_frames = 1 /\ retrigger_ms = 0
    /\ note_map = [A4 |-> "valid", E4 |-> "unmapped"]
    /\ InitState

\* main() resolves the window and the hop of the session from the loaded
\* configuration and the device's sample rate
Resolve ==
    /\ call = NoCall
    /\ \E cw \in ConfiguredSizes, ch \in ConfiguredSizes, sr \in SampleRates :
          LET w == ResolveWindow(MergeDefault(cw), sr)
          IN  call' = [kind |-> "resolve", cfg_window |-> cw, cfg_hop |-> ch,
                       sample_rate |-> sr, window_size |-> w,
                       hop_size |-> ResolveHop(MergeDefault(ch), w)]
    /\ UNCHANGED <<cfgvars, chanvars, loopvars, trigvars, nframes, judgment, outcome,
                   prev, emit_count, emits, recent, onScript, period, ref>>

NextResolve == Resolve

SpecResolve == InitCall /\ [][NextResolve]_vars

\* ------------------------------------------------------------ claims on the resolution
PowersOfTwo == {2, 4, 8, 16, 32, 64, 128, 256, 512, 1024, 2048, 4096, 8192, 16384, 32768} \cup {1}

Abs(x) == IF x >= 0 THEN x ELSE 0 - x

\* p is a power of two nearest to sample_rate / 20
IsNearestPower(p, sample_rate) ==
    /\ p \in PowersOfTwo
    /\ \A q \in PowersOfTwo :
          Abs(RateDivisor * p - sample_rate) <= Abs(RateDivisor * q - sample_rate)

\* C11: whatever the configured sizes and the sample rate, the resolved sizes
\* satisfy window_size > hop_size > 0.
C11_ResolvedSizesOrdered ==
    call.kind = "resolve" =>
        (call.window_size > call.hop_size /\ call.hop_size > 0)

\* C14: with window_size configured as 0 the resolved window is the power of
\* two nearest to sample_rate / 20, clamped to [1024, 8192].
C14_AutoWindowIsNearest ==
    (call.kind = "resolve" /\ call.cfg_window = 0) =>
        \E p \in PowersOfTwo :
            /\ IsNearestPower(p, call.sample_rate)
            /\ call.window_size = Min(Max(p, MinAutoWindow), MaxAutoWindow)

\* C15: with window_size and hop_size both configured as 0 the resolved window
\* is a power of two in [1024, 8192] and the resolved hop is a quarter of it.
C15_AutoSizes ==
    (call.kind = "resolve" /\ call.cfg_window = 0 /\ call.cfg_hop = 0) =>
        /\ call.window_size \in PowersOfTwo
        /\ call.window_size >= MinAutoWindow /\ call.window_size <= MaxAutoWindow
        /\ HopDivisor * call.hop_size = call.window_size

\* The sizes resolved at 48000 Hz, and at a rate low enough for the lower clamp
C15_Witness ==
    /\ call.kind = "resolve" /\ call.cfg_window = 0 /\ call.cfg_hop = 0
    /\ call.sample_rate = 48000 /\ call.window_size > MinAutoWindow
    /\ call.hop_size * HopDivisor = call.window_size

\* ------------------------------------------------------------ note names
\* static NAMES
NAMES == <<"C", "C#", "D", "D#", "E", "F", "F#", "G", "G#", "A", "A#", "B">>

\* The i32 operators / and %: the quotient is truncated toward zero and the
\* remainder has the sign of the dividend
RustDiv(a, b) == IF a >= 0 THEN a \div b ELSE 0 - ((0 - a) \div b)
RustRem(a, b) == a - b * RustDiv(a, b)

\* midi_to_name: format!("{}{}", NAMES[pitch_class], octave)
MidiToName(midi) ==
    LET pitch_class == RustRem(RustRem(midi, 12) + 12, 12)
        octave == RustDiv(midi, 12) - 1
    IN  NAMES[pitch_class + 1] \o ToString(octave)

\* The MIDI numbers named
MidiNumbers == (0 - MaxMidi)..MaxMidi

\* freq_to_note names the nearest MIDI number of a frequency
NameNote ==
    /\ call = NoCall
    /\ \E midi \in MidiNumbers :
          call' = [kind |-> "name", midi |-> midi, name |-> MidiToName(midi)]
    /\ UNCHANGED <<cfgvars, chanvars, loopvars, trigvars, nframes, judgment, outcome,
                   prev, emit_count, emits, recent, onScript, period, ref>>

NextNames == NameNote

SpecNames == InitCall /\ [][NextNames]_vars

\* The name the specification gives MIDI number m: the pitch class ((m mod 12)
\* + 12) mod 12 of the table, then the octave floor(m / 12) - 1
SpecifiedName(m) == NAMES[(((m % 12) + 12) % 12) + 1] \o ToString((m \div 12) - 1)

\* C16: for every MIDI number m, negative ones too, midi_to_name gives the
\* table's name at ((m mod 12) + 12) mod 12 followed by floor(m / 12) - 1; 69 is
\* "A4"; m + 1 has the next name up; no other MIDI number has the same name.
C16_NameOfMidi ==
    call.kind = "name" =>
        /\ call.name = SpecifiedName(call.midi)
        /\ call.midi = 69 => call.name = "A4"
        /\ MidiToName(call.midi + 1) = SpecifiedName(call.midi + 1)
        /\ \A m \in MidiNumbers : m # call.midi => MidiToName(m) # call.name

\* ------------------------------------------------------- pitch estimator
\* Samples are small integers and frequencies whole Hz, so that every f32 and
\* f64 quantity of detect_pitch_autocorr is an exact fraction n / d with d > 0;
\* a frequency with d = 0 is the infinite quotient of a division by 0.0.
Samples == {0 - 1, 0, 1}

\* The lengths n for which the Hann weights are exact: the cosine of 2 pi i /
\* (n - 1) is a multiple of 1/2 when n - 1 is 1, 2, 3 or 4
WindowLengths == {0, 1, 2, 3, 4, 5}

EstRates == {12}
MinHzs == {0, 3, 4, 5}
MaxHzs == {4, 6, 12, 30}

\* corr_threshold, in tenths
ThresholdTenths == {0, 5, 9}
ThresholdScale == 10

\* usize::MAX, what a cast of an infinite f32 saturates to; the model keeps
\* 16 bits of it, every lag of a window being far below
UsizeMax == 65535

RECURSIVE GCD(_, _)
GCD(a, b) == IF b = 0 THEN a ELSE GCD(b, a % b)

FAbs(v) == IF v < 0 THEN 0 - v ELSE v

\* The fraction a / b, b # 0, in lowest terms with a positive denominator
Frac(a, b) ==
    LET g == GCD(FAbs(a), FAbs(b))
        sign == IF b < 0 THEN 0 - 1 ELSE 1
    IN  [n |-> sign * (a \div g), d |-> sign * (b \div g)]

FZero == Frac(0, 1)
FSub(p, q) == Frac(p.n * q.d - q.n * p.d, p.d * q.d)
FAdd(p, q) == Frac(p.n * q.d + q.n * p.d, p.d * q.d)
FDiv(p, q) == Frac(p.n * q.d, p.d * q.n)
FScale(k, p) == Frac(k * p.n, p.d)
FHalf(p) == Frac(p.n, 2 * p.d)
FLess(p, q) == p.n * q.d < q.n * p.d

\* delta.clamp(-1.0, 1.0)
Clamp(p) ==
    IF FLess(p, Frac(0 - 1, 1)) THEN Frac(0 - 1, 1)
    ELSE IF FLess(Frac(1, 1), p) THEN Frac(1, 1) ELSE p

RECURSIVE SeqSum(_)
SeqSum(s) == IF s = <<>> THEN 0 ELSE Head(s) + SeqSum(Tail(s))

\* Twice the cosine of 2 pi i / k, for k in 1..4
Cos2(i, k) ==
    CASE k = 1 -> 2
      [] k = 2 -> IF i % 2 = 0 THEN 2 ELSE 0 - 2
      [] k = 3 -> IF i % 3 = 0 THEN 2 ELSE 0 - 1
      [] k = 4 -> (CASE i % 4 = 0 -> 2 [] i % 4 = 2 -> 0 - 2 [] OTHER -> 0)

\* Four times the Hann weight 0.5 - 0.5 cos(2 pi i / (n - 1)) of sample i of n
Hann4(i, n) == 2 - Cos2(i, n - 1)

\* x, the input less its mean and times the Hann weights, scaled by 4 n. The
\* one weight of a one-sample window divides 0 by 0: x[0] is then NaN.
Windowed(input) ==
    LET n == Len(input)
        total == SeqSum(input)
    IN  [i \in 1..n |-> IF n = 1 THEN "NaN" ELSE (n * input[i] - total) * Hann4(i - 1, n)]

IsNaN(x) == Len(x) = 1

\* (sample_rate / hz).round() as usize: the quotient by 0.0 is infinite and
\* the cast saturates
RoundedLag(sample_rate, hz) ==
    IF hz = 0 THEN UsizeMax ELSE Min((2 * sample_rate + hz) \div (2 * hz), UsizeMax)

\* energy0 of x: 16 n^2 times the f32 value, so it is at most 1e-9 exactly
\* when it is 0
Energy0(x) == SeqSum([i \in 1..Len(x) |-> x[i] * x[i]])

\* num and den of one lag
CorrNum(x, lag) == SeqSum([i \in 1..(Len(x) - lag) |-> x[i] * x[i + lag]])
CorrDen(x, lag) ==
    SeqSum([i \in 1..(Len(x) - lag) |-> x[i] * x[i] + x[i + lag] * x[i + lag]])

\* r_at: den is 16 n^2 times the f64 value, at most 1e-12 exactly when 0
RAt(x, lag) ==
    IF CorrDen(x, lag) = 0 THEN FZero ELSE Frac(2 * CorrNum(x, lag), CorrDen(x, lag))

\* The search loop from lag to hi; best is the pair best_lag, best_r. Every
\* comparison with a NaN is false, so a NaN window leaves best as it was.
RECURSIVE Search(_, _, _, _)
Search(x, lag, hi, best) ==
    IF lag > hi THEN best
    ELSE IF IsNaN(x) \/ CorrDen(x, lag) = 0 THEN Search(x, lag + 1, hi, best)
    ELSE IF FLess(best.r, RAt(x, lag))
         THEN Search(x, lag + 1, hi, [lag |-> lag, r |-> RAt(x, lag)])
         ELSE Search(x, lag + 1, hi, best)

\* denom.abs() > 1e-6
DenomTiny == 1000000
NotTiny(p) == FAbs(p.n) > p.d \div DenomTiny

\* The parabolic interpolation: est_lag
EstLag(x, best_lag) ==
    LET r0 == RAt(x, best_lag)
        r1 == IF best_lag > 1 THEN RAt(x, best_lag - 1) ELSE r0
        r2 == IF best_lag + 1 < Len(x) THEN RAt(x, best_lag + 1) ELSE r0
        denom == FSub(FSub(FScale(2, r0), r1), r2)
        delta == IF NotTiny(denom) THEN FDiv(FHalf(FSub(r1, r2)), denom) ELSE FZero
    IN  FAdd(Frac(best_lag, 1), Clamp(delta))

\* sample_rate / est_lag, infinite (d = 0) when est_lag is 0
F0(sample_rate, est_lag) ==
    IF est_lag.n = 0 THEN [n |-> sample_rate, d |-> 0]
    ELSE Frac(sample_rate * est_lag.d, est_lag.n)

\* The guard of the returned frequency, without its upper bound
InRange_NoUpper(f0, min_hz, max_hz) == f0.d # 0 /\ min_hz * f0.d <= f0.n

\* f0.is_finite() && f0 >= min_hz && f0 <= max_hz
InRange(f0, min_hz, max_hz) ==
    f0.d # 0 /\ min_hz * f0.d <= f0.n /\ f0.n <= max_hz * f0.d

\* What a call returned and where: result is "some", "none" or "panic"
Returned(result, stage, best_lag, f0) ==
    [result |-> result, stage |-> stage, best_lag |-> best_lag, f0 |-> f0]

\* detect_pitch_autocorr from the energy check on, lag_end being max_lag + 1
DetectFrom(x, sample_rate, min_hz, max_hz, threshold, min_lag, max_lag, lag_end) ==
    LET n == Len(x)
        best == Search(x, min_lag, Min(max_lag, n - 1), [lag |-> 0, r |-> FZero])
        f0 == F0(sample_rate, EstLag(x, best.lag))
    IN  IF lag_end >= n THEN Returned("none", "lags", 0, FZero)
        ELSE IF ~IsNaN(x) /\ Energy0(x) = 0 THEN Returned("none", "energy", 0, FZero)
        ELSE IF FLess(best.r, Frac(threshold, ThresholdScale)) \/ best.lag = 0
             THEN Returned("none", "peak", best.lag, FZero)
        ELSE IF InRange(f0, min_hz, max_hz) THEN Returned("some", "range", best.lag, f0)
        ELSE Returned("none", "range", best.lag, f0)

\* The returns of detect_pitch_autocorr. max_lag + 1 overflows when max_lag is
\* usize::MAX: a build with overflow checks panics there, one without wraps
\* the sum to 0.
DetectPitchAutocorr(input, sample_rate, min_hz, max_hz, threshold) ==
    LET x == Windowed(input)
        min_lag == RoundedLag(sample_rate, max_hz)
        max_lag == RoundedLag(sample_rate, min_hz)
        wrapped == DetectFrom(x, sample_rate, min_hz, max_hz, threshold, min_lag, max_lag, 0)
    IN  IF input = <<>> THEN {Returned("none", "empty", 0, FZero)}
        ELSE IF max_lag = UsizeMax
             THEN {Returned("panic", "overflow", 0, FZero), wrapped}
             ELSE {DetectFrom(x, sample_rate, min_hz, max_hz, threshold,
                              min_lag, max_lag, max_lag + 1)}

Windows == UNION {[1..n -> Samples] : n \in WindowLengths}

\* One call of the estimator on one window
Detect ==
    /\ call = NoCall
    /\ \E input \in Windows, sample_rate \in EstRates, min_hz \in MinHzs,
          max_hz \in MaxHzs, threshold \in ThresholdTenths :
          /\ min_hz < max_hz
          /\ \E ret \in DetectPitchAutocorr(input, sample_rate, min_hz, max_hz, threshold) :
                call' = [kind |-> "pitch", input |-> input, sample_rate |-> sample_rate,
                         min_hz |-> min_hz, max_hz |-> max_hz, threshold |-> threshold,
                         min_lag |-> RoundedLag(sample_rate, max_hz),
                         max_lag |-> RoundedLag(sample_rate, min_hz),
                         result |-> ret.result, stage |-> ret.stage,
                         best_lag |-> ret.best_lag, f0 |-> ret.f0]
    /\ UNCHANGED <<cfgvars, chanvars, loopvars, trigvars, nframes, judgment, outcome,
                   prev, emit_count, emits, recent, onScript, period, ref>>

NextPitch == Detect

SpecPitch == InitCall /\ [][NextPitch]_vars

\* C12: a frequency the estimator returns is finite and within [min_hz,
\* max_hz]; an estimate that is outside the range after the interpolation is
\* returned as no pitch.
C12_ReturnedInRange ==
    call.kind = "pitch" =>
        /\ call.result = "some" =>
              /\ call.f0.d > 0
              /\ call.min_hz * call.f0.d <= call.f0.n
              /\ call.f0.n <= call.max_hz * call.f0.d
        /\ (/\ call.stage = "range"
            /\ \/ call.f0.d = 0
               \/ call.f0.n < call.min_hz * call.f0.d
               \/ call.f0.n > call.max_hz * call.f0.d) => call.result = "none"

\* An estimate that the interpolation moved out of the range, from a best lag
\* whose own frequency is within it, and that was returned as no pitch
C12_Witness ==
    /\ call.kind = "pitch" /\ call.stage = "range" /\ call.result = "none"
    /\ call.min_hz > 0
    /\ call.min_hz * call.best_lag <= call.sample_rate
    /\ call.sample_rate <= call.max_hz * call.best_lag
    /\ call.f0.n > call.max_hz * call.f0.d

AllZero(input) == \A i \in 1..Len(input) : input[i] = 0

\* C13: for a window of pure silence and for an empty window the estimator
\* returns no pitch; a frame without a pitch resets the consecutive counter to
\* 0, clears last_note and emits no trigger.
C13_SilenceIsNoPitch ==
    /\ (call.kind = "pitch" /\ AllZero(call.input)) => call.result = "none"
    /\ (nframes > 0 /\ ~judgment.pitch) =>
          (stable_count = 0 /\ last_note = NoNote /\ outcome # "fired")

\* ------------------------------------------------------------- send_keys
\* A key sequence is a string, here the sequence of its characters
Plus == "+"
Blank == " "

\* to_ascii_lowercase, on the characters of the sequences below
ToAsciiLowercase(c) ==
    CASE c = "C" -> "c" [] c = "S" -> "s" [] c = "F" -> "f" [] c = "E" -> "e" [] OTHER -> c

Lower(t) == [i \in 1..Len(t) |-> ToAsciiLowercase(t[i])]

\* str::trim
RECURSIVE TrimStart(_)
TrimStart(t) == IF t # <<>> /\ Head(t) = Blank THEN TrimStart(Tail(t)) ELSE t

RECURSIVE TrimEnd(_)
TrimEnd(t) ==
    IF t # <<>> /\ t[Len(t)] = Blank THEN TrimEnd(SubSeq(t, 1, Len(t) - 1)) ELSE t

Trim(t) == TrimEnd(TrimStart(t))

\* sequence.split('+'): the pieces between the '+' characters, cur being the
\* piece under way
RECURSIVE SplitFrom(_, _)
SplitFrom(chars, cur) ==
    IF chars = <<>> THEN <<cur>>
    ELSE IF Head(chars) = Plus THEN <<cur>> \o SplitFrom(Tail(chars), <<>>)
    ELSE SplitFrom(Tail(chars), Append(cur, Head(chars)))

Split(chars) == SplitFrom(chars, <<>>)

NonEmpty(t) == t # <<>>

\* tokens: split, trimmed, the empty ones filtered out
Tokens(sequence) ==
    SelectSeq([i \in 1..Len(Split(sequence)) |-> Trim(Split(sequence)[i])], NonEmpty)

NamedKey(name) == [key |-> name, c |-> ""]
Layout(c) == [key |-> "Layout", c |-> c]

\* The arms of the match that push a modifier
ModifierNames ==
    <<  <<"c","t","r","l">>, "Control">> :> 0 @@ << <<"c","o","n","t","r","o","l">>, "Control">> :> 0
    @@ << <<"s","h","i","f","t">>, "Shift">> :> 0 @@ << <<"a","l","t">>, "Alt">> :> 0
    @@ << <<"w","i","n">>, "Meta">> :> 0 @@ << <<"m","e","t","a">>, "Meta">> :> 0

\* The arms of the match that set the main key
MainKeyNames ==
    <<  <<"s","p","a","c","e">>, "Space">> :> 0
    @@ << <<"e","n","t","e","r">>, "Return">> :> 0 @@ << <<"r","e","t","u","r","n">>, "Return">> :> 0
    @@ << <<"t","a","b">>, "Tab">> :> 0
    @@ << <<"e","s","c">>, "Escape">> :> 0 @@ << <<"e","s","c","a","p","e">>, "Escape">> :> 0
    @@ << <<"u","p">>, "UpArrow">> :> 0 @@ << <<"u","p","a","r","r","o","w">>, "UpArrow">> :> 0
    @@ << <<"d","o","w","n">>, "DownArrow">> :> 0
    @@ << <<"d","o","w","n","a","r","r","o","w">>, "DownArrow">> :> 0
    @@ << <<"l","e","f","t">>, "LeftArrow">> :> 0
    @@ << <<"l","e","f","t","a","r","r","o","w">>, "LeftArrow">> :> 0
    @@ << <<"r","i","g","h","t">>, "RightArrow">> :> 0
    @@ << <<"r","i","g","h","t","a","r","r","o","w">>, "RightArrow">> :> 0

IsNamed(table, t) == \E e \in DOMAIN table : e[1] = t
KeyNamed(table, t) == NamedKey((CHOOSE e \in DOMAIN table : e[1] = t)[2])

\* The loop over the tokens from token i on: st holds modifiers, main_key
\* (a sequence, empty for None) and err
RECURSIVE ParseFrom(_, _, _)
ParseFrom(tokens, i, st) ==
    IF i > Len(tokens) THEN st
    ELSE LET t == Lower(tokens[i])
         IN  IF IsNamed(ModifierNames, t)
             THEN ParseFrom(tokens, i + 1,
                            [st EXCEPT !.modifiers = Append(@, KeyNamed(ModifierNames, t))])
             ELSE IF IsNamed(MainKeyNames, t)
             THEN ParseFrom(tokens, i + 1,
                            [st EXCEPT !.main_key = <<KeyNamed(MainKeyNames, t)>>])
             ELSE IF Len(t) = 1
             THEN ParseFrom(tokens, i + 1, [st EXCEPT !.main_key = <<Layout(t[1])>>])
             ELSE [st EXCEPT !.err = "Unknown key token"]

Reverse(q) == [i \in 1..Len(q) |-> q[Len(q) + 1 - i]]

\* The order of the key_up calls, when it is the order of the key_down calls
ReleaseOrder_AsPressed(modifiers) == modifiers

\* modifiers.into_iter().rev()
ReleaseOrder(modifiers) == Reverse(modifiers)

KeyEvents(ev, keys) == [i \in 1..Len(keys) |-> [ev |-> ev, key |-> keys[i]]]

\* send_keys: the result and the key events injected, in order
SendKeys(sequence) ==
    LET tokens == Tokens(sequence)
        st == ParseFrom(tokens, 1, [modifiers |-> <<>>, main_key |-> <<>>, err |-> ""])
    IN  IF tokens = <<>> THEN [result |-> "err", error |-> "Empty key sequence", events |-> <<>>]
        ELSE IF st.err # "" THEN [result |-> "err", error |-> st.err, events |-> <<>>]
        ELSE IF st.main_key = <<>>
             THEN [result |-> "err", error |-> "No main key in sequence", events |-> <<>>]
        ELSE [result |-> "ok", error |-> "",
              events |-> KeyEvents("down", st.modifiers)
                         \o <<[ev |-> "click", key |-> st.main_key[1]]>>
                         \o KeyEvents("up", ReleaseOrder(st.modifiers))]

\* The pieces the sequences are made of
Pieces ==
    { <<"C","t","r","l">>, <<" ","s","h","i","f","t"," ">>, <<"a","l","t">>,
      <<"S","p","a","c","e">>, <<"S">>, <<"F","1","3">>, <<>>, <<" ">> }

RECURSIVE Join(_)
Join(ps) ==
    IF Len(ps) = 1 THEN ps[1] ELSE ps[1] \o <<Plus>> \o Join(Tail(ps))

\* Action::Keys::sequence
Sequences == {Join(ps) : ps \in UNION {[1..k -> Pieces] : k \in 1..MaxTokens}}

\* execute_action on a Keys action
Send ==
    /\ call = NoCall
    /\ \E sequence \in Sequences :
          call' = [kind |-> "keys", sequence |-> sequence, tokens |-> Tokens(sequence),
                   result |-> SendKeys(sequence).result, error |-> SendKeys(sequence).error,
                   events |-> SendKeys(sequence).events]
    /\ UNCHANGED <<cfgvars, chanvars, loopvars, trigvars, nframes, judgment, outcome,
                   prev, emit_count, emits, recent, onScript, period, ref>>

NextKeys == Send

SpecKeys == InitCall /\ [][NextKeys]_vars

IsDown(e) == e.ev = "down"
IsUp(e) == e.ev = "up"
IsClick(e) == e.ev = "click"

\* C20: send_keys injects key events only after the whole sequence has parsed.
\* When it returns an error no key event has been injected; when it succeeds
\* the events are the presses of the modifiers, one click of one main key and
\* the releases of the pressed modifiers in reverse order, so that no modifier
\* stays down.
C20_KeysAllOrNothing ==
    call.kind = "keys" =>
        /\ call.result = "err" => call.events = <<>>
        /\ call.result = "ok" =>
              LET downs == SelectSeq(call.events, IsDown)
                  ups == SelectSeq(call.events, IsUp)
                  k == Len(downs)
              IN  /\ Len(call.events) = 2 * k + 1
                  /\ Len(ups) = k
                  /\ \A i \in 1..k : IsDown(call.events[i])
                  /\ IsClick(call.events[k + 1])
                  /\ \A i \in 1..k : /\ IsUp(call.events[k + 1 + i])
                                     /\ call.events[k + 1 + i].key = call.events[k + 1 - i].key
                  /\ \A i \in 1..k : call.events[i].key.key \in {"Control", "Shift", "Alt", "Meta"}

\* A sequence with two different modifiers and a main key, sent
C20_Witness ==
    /\ call.kind = "keys" /\ call.result = "ok"
    /\ Len(call.events) = 5
    /\ call.events[1].key # call.events[2].key

====
